---- MODULE Spec2Model ----
(***************************************************************************)
(* Fortivo CRM (src/app.py): the WSGI dispatcher `app`, the CRUD handlers  *)
(* over the single `clients` table, and the SQLite store behind them.      *)
(*                                                                         *)
(* Text is a sequence of code points, so that str.strip() and the          *)
(* lexicographic comparison of dates are computed, not assumed.  A JSON or *)
(* SQL value is a tagged record: Null or Str(text).  The server is the     *)
(* single-threaded wsgiref server of run(): one request is served at a     *)
(* time, and an exception escaping a handler is answered 500 by wsgiref.   *)
(*                                                                         *)
(* SpecConcurrent is `app` under a WSGI host that runs it on several       *)
(* threads: every request has its own connection, and the steps of the     *)
(* two API handlers (statement, commit, select-back) interleave.           *)
(***************************************************************************)
EXTENDS FiniteSets, Integers, Sequences, TLC

\* Bounds of the exploration.
MaxSeq == 2
MaxRequests == 3
MaxWorkers == 2

VARIABLES
    clients,    \* the clients table: rowid -> row
    seq,        \* sqlite_sequence.seq for the table (AUTOINCREMENT)
    locked,     \* a connection leaked by a failed write still holds the write lock
    served,     \* number of requests served so far
    req,        \* the last request
    resp,       \* the response to the last request
    workers     \* the threads of a threaded host: the request each one is in

vars == <<clients, seq, locked, served, req, resp, workers>>

-----------------------------------------------------------------------------
\* Values and text

Null == [t |-> "null", s |-> <<>>]
Str(s) == [t |-> "str", s |-> s]

T_empty == <<>>
T_blank == <<32>>
T_a_padded == <<32, 97, 32>>
T_e == <<101>>
T_5 == <<53>>
T_n == <<110>>
T_Lead == <<76, 101, 97, 100>>
T_Active == <<65, 99, 116, 105, 118, 101>>
\* "2026-11-04" and "2026-11-05"
T_Yesterday == <<50, 48, 50, 54, 45, 49, 49, 45, 48, 52>>
T_Today == <<50, 48, 50, 54, 45, 49, 49, 45, 48, 53>>

Fields == {"name", "email", "phone", "status", "follow_up_date", "notes"}
Required == {"name", "email"}
NotNullColumns == {"name", "email", "status"}

IsSpace(c) == c \in {9, 10, 11, 12, 13, 32}

RECURSIVE LStrip(_)
LStrip(s) == IF s # <<>> /\ IsSpace(Head(s)) THEN LStrip(Tail(s)) ELSE s

RECURSIVE RStrip(_)
RStrip(s) ==
    IF s # <<>> /\ IsSpace(s[Len(s)]) THEN RStrip(SubSeq(s, 1, Len(s) - 1)) ELSE s

\* str.strip()
Strip(s) == RStrip(LStrip(s))

\* a < b on text (Python str comparison, SQLite BINARY collation)
RECURSIVE TextLess(_, _)
TextLess(a, b) ==
    IF b = <<>> THEN FALSE
    ELSE IF a = <<>> THEN TRUE
    ELSE IF Head(a) < Head(b) THEN TRUE
    ELSE IF Head(a) > Head(b) THEN FALSE
    ELSE TextLess(Tail(a), Tail(b))

\* Python truthiness of a value that is None or a str
Truthy(v) == v # Null /\ v.s # <<>>

\* datetime.date.today().isoformat()
today_str == T_Today

-----------------------------------------------------------------------------
\* The store: the clients table of init_db behind sqlite3 connections

Database(c, s, l) == [clients |-> c, seq |-> s, locked |-> l]

SqlResult(db, exc, lastrowid) == [db |-> db, exc |-> exc, lastrowid |-> lastrowid]

NextRowIdReusing(db) ==
    IF DOMAIN db.clients = {} THEN 1
    ELSE 1 + CHOOSE i \in DOMAIN db.clients : \A j \in DOMAIN db.clients : j <= i

\* id INTEGER PRIMARY KEY AUTOINCREMENT: one more than the largest rowid ever used
NextRowId(db) == db.seq + 1

\* name TEXT NOT NULL, email TEXT NOT NULL, status TEXT NOT NULL
ViolatesNotNull(row) == \E f \in NotNullColumns \cap DOMAIN row : row[f] = Null

\* A write statement needs the write lock; a statement that fails inside its
\* implicit transaction leaves the transaction open on a connection the handler
\* never closes, and the lock stays held until that connection is collected.
SqlInsert(db, row) ==
    IF db.locked THEN SqlResult(db, "OperationalError", 0)
    ELSE IF ViolatesNotNull(row)
        THEN SqlResult([db EXCEPT !.locked = TRUE], "IntegrityError", 0)
    ELSE LET id == NextRowId(db)
         IN  SqlResult(Database((id :> row) @@ db.clients, id, FALSE), "", id)

UpdatedRowOverwriting(row, assignments) ==
    [f \in Fields |-> IF f \in DOMAIN assignments THEN assignments[f] ELSE Str(T_empty)]

\* SET f=? for the assigned columns, the others keep their value
UpdatedRow(row, assignments) ==
    [f \in Fields |-> IF f \in DOMAIN assignments THEN assignments[f] ELSE row[f]]

\* UPDATE clients SET ... WHERE id=?
SqlUpdate(db, assignments, id) ==
    IF db.locked THEN SqlResult(db, "OperationalError", 0)
    ELSE IF id \in DOMAIN db.clients /\ ViolatesNotNull(assignments)
        THEN SqlResult([db EXCEPT !.locked = TRUE], "IntegrityError", 0)
    ELSE SqlResult(
            [db EXCEPT !.clients =
                [i \in DOMAIN db.clients |->
                    IF i = id THEN UpdatedRow(db.clients[i], assignments)
                    ELSE db.clients[i]]],
            "", 0)

\* DELETE FROM clients WHERE id=?
SqlDelete(db, id) ==
    IF db.locked THEN SqlResult(db, "OperationalError", 0)
    ELSE SqlResult(
            [db EXCEPT !.clients = [i \in DOMAIN db.clients \ {id} |-> db.clients[i]]],
            "", 0)

\* SELECT * FROM clients WHERE id=?  (fetchone: the row, or None)
SelectById(db, id) ==
    [i \in DOMAIN db.clients \cap {id} |-> db.clients[i]]

\* SELECT * FROM clients [WHERE status = ?]
SelectByStatus(db, status_filter) ==
    [i \in {j \in DOMAIN db.clients :
                status_filter = <<>> \/ db.clients[j]["status"] = Str(status_filter)}
        |-> db.clients[i]]

-----------------------------------------------------------------------------
\* Requests and responses

EmptyData == <<>>
NoRows == <<>>

Body(error, rows, flagged, n) == [error |-> error, rows |-> rows, flagged |-> flagged, n |-> n]
NoBody == Body("", NoRows, {}, 0)
ErrorBody(error) == Body(error, NoRows, {}, 0)
RowsBody(rows) == Body("", rows, {}, 0)

Response(status, handler, header, body) ==
    [status |-> status, handler |-> handler, header |-> header, body |-> body]

Result(db, r) == [db |-> db, resp |-> r]

\* An exception that escapes the handler: wsgiref answers 500
Unhandled(db, exception) ==
    Result(db, Response(500, "error_output", "Content-Type: text/plain", ErrorBody(exception)))

\* parse_qs drops the keys whose value is blank
ParseQs(payload) ==
    [f \in {g \in DOMAIN payload : payload[g] # Null /\ payload[g].s # <<>>} |-> payload[f]]

\* parse_post_data: the body decoded, then json.loads or parse_qs
ParsePostData(request) ==
    LET body == request.body
    IN  IF body.kind = "undecodable"
            THEN [exc |-> "UnicodeDecodeError", isdict |-> FALSE, data |-> EmptyData]
        ELSE IF request.ctype = "application/json"
            THEN IF body.kind \in {"empty", "malformed"}
                    THEN [exc |-> "", isdict |-> TRUE, data |-> EmptyData]
                 ELSE IF body.kind = "null"
                    THEN [exc |-> "", isdict |-> FALSE, data |-> EmptyData]
                 ELSE [exc |-> "", isdict |-> TRUE, data |-> body.payload]
        ELSE IF body.kind = "object"
            THEN [exc |-> "", isdict |-> TRUE, data |-> ParseQs(body.payload)]
        ELSE [exc |-> "", isdict |-> TRUE, data |-> EmptyData]

\* dict.get(key, default)
Get(data, key, default) == IF key \in DOMAIN data THEN data[key] ELSE default

\* not_found
not_found(db) ==
    Result(db, Response(404, "not_found", "Content-Type: text/plain", ErrorBody("Not Found")))

\* redirect
redirect(db, location, handler) ==
    Result(db, Response(302, handler, location, NoBody))

\* serve_static: the file is on disk or it is not
StaticFiles == {"app.css"}

serve_static(db, request) ==
    IF Len(request.path) = 2 /\ request.path[2] \in StaticFiles
        THEN Result(db, Response(200, "serve_static", "Content-Type: text/css", NoBody))
    ELSE not_found(db)

\* WHERE follow_up_date IS NOT NULL AND follow_up_date < ?
OverdueSql(row) ==
    row["follow_up_date"] # Null /\ TextLess(row["follow_up_date"].s, today_str)

\* if follow_date: overdue = follow_date < today_str
OverdueFlag(row) ==
    Truthy(row["follow_up_date"]) /\ TextLess(row["follow_up_date"].s, today_str)

\* handle_dashboard
handle_dashboard(db, request) ==
    LET overdue_count == Cardinality({i \in DOMAIN db.clients : OverdueSql(db.clients[i])})
    IN  Result(db, Response(200, "handle_dashboard", "Content-Type: text/html",
                            Body("", NoRows, {}, overdue_count)))

\* handle_clients_list (the status filter; search and sort order do not change the set)
handle_clients_list(db, request) ==
    LET rows == SelectByStatus(db, request.query)
    IN  Result(db, Response(200, "handle_clients_list", "Content-Type: text/html",
                            Body("", rows, {i \in DOMAIN rows : OverdueFlag(rows[i])},
                                 Cardinality(DOMAIN rows))))

\* handle_export_csv
handle_export_csv(db, request) ==
    Result(db, Response(200, "handle_export_csv", "Content-Type: text/csv",
                        RowsBody(SelectByStatus(db, <<>>))))

\* handle_client_delete
handle_client_delete(db, request, client_id) ==
    LET del == SqlDelete(db, client_id)
    IN  IF del.exc # "" THEN Unhandled(del.db, del.exc)
        ELSE redirect(del.db, "Location: /clients", "handle_client_delete")

\* The fields both write handlers read with .strip(): None has no strip()
Stripped == {"name", "email", "phone", "notes"}

StripsNone(data) == \E f \in Stripped \cap DOMAIN data : data[f] = Null

\* data.get(key, '').strip()
GetStripped(data, key) == Str(Strip(Get(data, key, Str(T_empty)).s))

\* data.get('follow_up_date') or None
OrNone(v) == IF Truthy(v) THEN v ELSE Null

\* The row both create paths and the form update build from the parsed fields
SanitizedRow(data) ==
    [f \in Fields |->
        IF f \in Stripped THEN GetStripped(data, f)
        ELSE IF f = "status" THEN Get(data, "status", Str(T_Lead))
        ELSE OrNone(Get(data, "follow_up_date", Null))]

NoClient == 0 - 1

\* handle_client_form
handle_client_form(db, request, client_id) ==
    LET render ==
            Result(db, Response(200, "handle_client_form", "Content-Type: text/html",
                                RowsBody(IF client_id = NoClient THEN NoRows
                                         ELSE SelectById(db, client_id))))
        pd == ParsePostData(request)
        row == SanitizedRow(pd.data)
        write == IF client_id = NoClient THEN SqlInsert(db, row)
                 ELSE SqlUpdate(db, row, client_id)
    IN  IF request.method # "POST" THEN render
        ELSE IF pd.exc # "" THEN Unhandled(db, pd.exc)
        ELSE IF ~pd.isdict \/ StripsNone(pd.data) THEN Unhandled(db, "AttributeError")
        ELSE IF row["name"].s = <<>> \/ row["email"].s = <<>> THEN render
        ELSE IF write.exc # "" THEN Unhandled(write.db, write.exc)
        ELSE redirect(write.db, "Location: /clients", "handle_client_form")

\* handle_api_clients
handle_api_clients(db, request) ==
    LET pd == ParsePostData(request)
        row == SanitizedRow(pd.data)
        ins == SqlInsert(db, row)
    IN  IF request.method = "GET"
            THEN Result(db, Response(200, "handle_api_clients", "Content-Type: application/json",
                                     RowsBody(SelectByStatus(db, request.query))))
        ELSE IF request.method = "POST"
            THEN IF pd.exc # "" THEN Unhandled(db, pd.exc)
                 ELSE IF ~pd.isdict \/ StripsNone(pd.data) THEN Unhandled(db, "AttributeError")
                 ELSE IF row["name"].s = <<>> \/ row["email"].s = <<>>
                    THEN Result(db, Response(400, "handle_api_clients",
                                             "Content-Type: application/json",
                                             ErrorBody("name and email are required")))
                 ELSE IF ins.exc # "" THEN Unhandled(ins.db, ins.exc)
                 ELSE Result(ins.db, Response(201, "handle_api_clients",
                                              "Content-Type: application/json",
                                              RowsBody(SelectById(ins.db, ins.lastrowid))))
        ELSE Result(db, Response(405, "handle_api_clients", "Allow: GET, POST", NoBody))

\* handle_api_client_detail
handle_api_client_detail(db, request, client_id) ==
    LET pd == ParsePostData(request)
        fields == DOMAIN pd.data \cap Fields
        params == [f \in fields |-> pd.data[f]]
        upd == SqlUpdate(db, params, client_id)
        updated == SelectById(upd.db, client_id)
        del == SqlDelete(db, client_id)
    IN  IF request.method = "GET"
            THEN IF DOMAIN SelectById(db, client_id) = {}
                    THEN Result(db, Response(404, "handle_api_client_detail",
                                             "Content-Type: application/json",
                                             ErrorBody("client not found")))
                 ELSE Result(db, Response(200, "handle_api_client_detail",
                                          "Content-Type: application/json",
                                          RowsBody(SelectById(db, client_id))))
        ELSE IF request.method \in {"PUT", "PATCH"}
            THEN IF pd.exc # "" THEN Unhandled(db, pd.exc)
                 ELSE IF ~pd.isdict THEN Unhandled(db, "TypeError")
                 ELSE IF fields = {}
                    THEN Result(db, Response(400, "handle_api_client_detail",
                                             "Content-Type: application/json",
                                             ErrorBody("no fields to update")))
                 ELSE IF upd.exc # "" THEN Unhandled(upd.db, upd.exc)
                 ELSE IF DOMAIN updated = {} THEN Unhandled(upd.db, "TypeError")
                 ELSE Result(upd.db, Response(200, "handle_api_client_detail",
                                              "Content-Type: application/json",
                                              RowsBody(updated)))
        ELSE IF request.method = "DELETE"
            THEN IF del.exc # "" THEN Unhandled(del.db, del.exc)
                 ELSE Result(del.db, Response(204, "handle_api_client_detail", "", NoBody))
        ELSE Result(db, Response(405, "handle_api_client_detail",
                                 "Allow: GET, PUT, PATCH, DELETE", NoBody))

\* int(): the decimal strings of the ids the requests name
IntText == <<"1", "2", "3", "4", "5", "6", "7", "8", "9">>
IsInt(s) == \E i \in 1..Len(IntText) : IntText[i] = s
ParseInt(s) == CHOOSE i \in 1..Len(IntText) : IntText[i] = s

\* app: the dispatcher.  A path is the tuple of its segments, / being <<>>.
app(db, request) ==
    LET path == request.path
        method == request.method
    IN  IF Len(path) >= 2 /\ path[1] = "static" THEN serve_static(db, request)
        ELSE IF path = <<>> /\ method = "GET"
            THEN redirect(db, "Location: /dashboard", "app")
        ELSE IF path = <<"dashboard">> /\ method = "GET" THEN handle_dashboard(db, request)
        ELSE IF path = <<"clients">> /\ method = "GET" THEN handle_clients_list(db, request)
        ELSE IF path = <<"clients", "new">> THEN handle_client_form(db, request, NoClient)
        ELSE IF Len(path) >= 2 /\ path[1] = "clients" /\ ~IsInt(path[2]) THEN not_found(db)
        ELSE IF Len(path) = 3 /\ path[1] = "clients" /\ path[3] = "edit"
            THEN handle_client_form(db, request, ParseInt(path[2]))
        ELSE IF Len(path) = 3 /\ path[1] = "clients" /\ path[3] = "delete"
            THEN handle_client_delete(db, request, ParseInt(path[2]))
        ELSE IF path = <<"clients", "export">> /\ method = "GET"
            THEN handle_export_csv(db, request)
        ELSE IF path = <<"api", "clients">> THEN handle_api_clients(db, request)
        ELSE IF Len(path) >= 3 /\ path[1] = "api" /\ path[2] = "clients"
            THEN IF Len(path) = 3 /\ IsInt(path[3])
                    THEN handle_api_client_detail(db, request, ParseInt(path[3]))
                 ELSE not_found(db)
        ELSE not_found(db)

-----------------------------------------------------------------------------
\* The requests the clients send

Methods == {"GET", "POST", "PUT", "PATCH", "DELETE"}

IdSegments == {IntText[i] : i \in 1..MaxSeq}

FixedPaths ==
    { <<>>, <<"dashboard">>, <<"clients">>, <<"clients", "new">>, <<"clients", "export">>,
      <<"api", "clients">>, <<"static", "app.css">>, <<"static", "missing.css">>,
      <<"about">>, <<"clients", "abc", "edit">>, <<"api", "clients", "abc">> }

IdPaths ==
    UNION { { <<"clients", i, "edit">>, <<"clients", i, "delete">>, <<"api", "clients", i>> }
            : i \in IdSegments }

Paths == FixedPaths \cup IdPaths

\* The values a JSON payload gives each field
JsonValues(f) ==
    CASE f = "name" -> {Null, Str(T_a_padded), Str(T_blank)}
      [] f = "email" -> {Str(T_e), Str(T_empty)}
      [] f = "phone" -> {Null, Str(T_5)}
      [] f = "status" -> {Null, Str(T_Active)}
      [] f = "follow_up_date" -> {Str(T_empty), Str(T_Yesterday), Str(T_Today)}
      [] OTHER -> {Str(T_n)}

AllJsonValues == UNION {JsonValues(f) : f \in Fields}

PayloadsOver(S) == {p \in [S -> AllJsonValues] : \A f \in S : p[f] \in JsonValues(f)}

\* A payload names at most one field, or name and email with at most one more
FieldSets ==
    {S \in SUBSET Fields :
        \/ Cardinality(S) <= 1
        \/ Required \subseteq S /\ Cardinality(S \ Required) <= 1}

Payloads == UNION {PayloadsOver(S) : S \in FieldSets}

BodyOf(kind, payload) == [kind |-> kind, payload |-> payload]

EmptyBody == BodyOf("empty", EmptyData)

\* JSON bodies: an object, nothing, text that is not JSON, the JSON value null,
\* bytes that are not UTF-8
JsonBodies ==
    {BodyOf("object", p) : p \in Payloads}
        \cup {BodyOf(k, EmptyData) : k \in {"empty", "malformed", "null", "undecodable"}}

\* A form cannot carry null
FormBodies ==
    {BodyOf("object", p) : p \in {q \in Payloads : \A f \in DOMAIN q : q[f] # Null}}

Request(method, path, query, ctype, body) ==
    [method |-> method, path |-> path, query |-> query, ctype |-> ctype, body |-> body]

NoRequest == Request("", <<>>, <<>>, "", EmptyBody)
NoResponse == Response(0, "", "", NoBody)

FormPaths == { <<"clients", "new">> } \cup { <<"clients", i, "edit">> : i \in IdSegments }

BodyPaths == { <<"api", "clients">> } \cup { <<"api", "clients", i>> : i \in IdSegments }

\* The verb that carries a body to a path
BodyMethod(p) == IF Len(p) = 3 THEN "PATCH" ELSE "POST"

Requests ==
    {Request(m, p, <<>>, "", EmptyBody) : m \in Methods, p \in Paths}
        \cup {Request("GET", p, T_Active, "", EmptyBody) : p \in {<<"clients">>, <<"api", "clients">>}}
        \cup {Request(BodyMethod(p), p, <<>>, "application/json", b) :
                p \in BodyPaths, b \in JsonBodies}
        \cup {Request("PUT", p, <<>>, "application/json", b) :
                p \in BodyPaths \cap {<<"api", "clients", i>> : i \in IdSegments},
                b \in JsonBodies}
        \cup {Request("POST", p, <<>>, "application/x-www-form-urlencoded", b) :
                p \in FormPaths, b \in FormBodies}

-----------------------------------------------------------------------------
\* The threads a WSGI host runs app on

Workers == 1..MaxWorkers

\* A thread inside a handler: where it is (pc), its request, its connection's
\* open transaction (txn: the table as its uncommitted write leaves it), its
\* cursor's lastrowid and rowcount, whether its write was committed, and its
\* response once the handler has returned
Worker(pc, request, txn, lastrowid, rowcount, committed, response) ==
    [pc |-> pc, request |-> request, txn |-> txn, lastrowid |-> lastrowid,
     rowcount |-> rowcount, committed |-> committed, resp |-> response]

NoTxn == Database(NoRows, 0, FALSE)

Idle == Worker("idle", NoRequest, NoTxn, 0, 0, FALSE, NoResponse)

-----------------------------------------------------------------------------
\* The server: run() serves one request at a time

Init ==
    /\ clients = NoRows
    /\ seq = 0
    /\ locked = FALSE
    /\ served = 0
    /\ req = NoRequest
    /\ resp = NoResponse
    /\ workers = [w \in Workers |-> Idle]

\* The server is between two requests, and within the bound
Accepting == req = NoRequest /\ served < MaxRequests

\* One request through app, from dispatch to the handler's return
Serve(request) ==
    LET res == app(Database(clients, seq, locked), request)
    IN  /\ res.db.seq <= MaxSeq
        /\ clients' = res.db.clients
        /\ seq' = res.db.seq
        /\ locked' = res.db.locked
        /\ served' = served + 1
        /\ req' = request
        /\ resp' = res.resp
        /\ UNCHANGED workers

Home == Accepting /\ \E r \in Requests : r.path = <<>> /\ Serve(r)

Dashboard == Accepting /\ \E r \in Requests : r.path = <<"dashboard">> /\ Serve(r)

ClientsList == Accepting /\ \E r \in Requests : r.path = <<"clients">> /\ Serve(r)

ClientNew == Accepting /\ \E r \in Requests : r.path = <<"clients", "new">> /\ Serve(r)

ClientEdit ==
    Accepting /\ \E r \in Requests : Len(r.path) = 3 /\ r.path[1] = "clients" /\ r.path[3] = "edit" /\ Serve(r)

ClientDelete ==
    Accepting /\ \E r \in Requests : Len(r.path) = 3 /\ r.path[1] = "clients" /\ r.path[3] = "delete" /\ Serve(r)

Export == Accepting /\ \E r \in Requests : r.path = <<"clients", "export">> /\ Serve(r)

ApiClients == Accepting /\ \E r \in Requests : r.path = <<"api", "clients">> /\ Serve(r)

ApiClientDetail == Accepting /\ \E r \in Requests : Len(r.path) = 3 /\ r.path[1] = "api" /\ Serve(r)

Static == Accepting /\ \E r \in Requests : Len(r.path) = 2 /\ r.path[1] = "static" /\ Serve(r)

Unrouted == Accepting /\ \E r \in Requests : r.path = <<"about">> /\ Serve(r)

\* The response is sent and the request is over
Respond ==
    /\ req # NoRequest
    /\ req' = NoRequest
    /\ resp' = NoResponse
    /\ UNCHANGED <<clients, seq, locked, served, workers>>

\* The connection a failed write left open is collected: its transaction is
\* rolled back and the write lock released
CollectGarbage ==
    /\ locked
    /\ locked' = FALSE
    /\ UNCHANGED <<clients, seq, served, req, resp, workers>>

Next ==
    \/ Home
    \/ Dashboard
    \/ ClientsList
    \/ ClientNew
    \/ ClientEdit
    \/ ClientDelete
    \/ Export
    \/ ApiClients
    \/ ApiClientDetail
    \/ Static
    \/ Unrouted
    \/ Respond
    \/ CollectGarbage

Spec == Init /\ [][Next]_vars

-----------------------------------------------------------------------------
\* Vocabulary of the properties

Db == Database(clients, seq, locked)

Done == req # NoRequest

IsApiCollection(r) == r.path = <<"api", "clients">>

IsApiDetail(r) == Len(r.path) = 3 /\ r.path[1] = "api" /\ r.path[2] = "clients" /\ IsInt(r.path[3])

IsFormDelete(r) ==
    Len(r.path) = 3 /\ r.path[1] = "clients" /\ IsInt(r.path[2]) /\ r.path[3] = "delete"

IsFormEdit(r) ==
    Len(r.path) = 3 /\ r.path[1] = "clients" /\ IsInt(r.path[2]) /\ r.path[3] = "edit"

ApiId(r) == ParseInt(r.path[3])

IsPartialUpdate(r) == IsApiDetail(r) /\ r.method \in {"PUT", "PATCH"}

\* The fields a request's payload names
Named(r) == IF r.body.kind = "object" THEN DOMAIN r.body.payload \cap Fields ELSE {}

NonEmptyTrimmed(v) == v # Null /\ Strip(v.s) # <<>>

GetDetail(db, id) ==
    handle_api_client_detail(db, Request("GET", <<"api", "clients", IntText[id]>>, <<>>, "", EmptyBody), id)

\* C1: every POST /api/clients whose name and email are non-empty after
\* trimming is answered 201 with a record under a generated id, status "Lead"
\* and follow_up_date null when the payload gave none (or an empty date), and a
\* GET of that id right after returns 200 with the identical record.
C1_CreateThenFetchIdentical ==
    (/\ Done
     /\ IsApiCollection(req)
     /\ req.method = "POST"
     /\ {"name", "email"} \subseteq Named(req)
     /\ NonEmptyTrimmed(req.body.payload["name"])
     /\ NonEmptyTrimmed(req.body.payload["email"]))
    => /\ resp.status = 201
       /\ Cardinality(DOMAIN resp.body.rows) = 1
       /\ \A id \in DOMAIN resp.body.rows :
            /\ id >= 1
            /\ GetDetail(Db, id).resp.status = 200
            /\ GetDetail(Db, id).resp.body.rows = resp.body.rows
            /\ "status" \notin Named(req) => resp.body.rows[id]["status"] = Str(T_Lead)
            /\ ("follow_up_date" \notin Named(req)
                    \/ ~Truthy(req.body.payload["follow_up_date"]))
                => resp.body.rows[id]["follow_up_date"] = Null

\* C2: a GET of /clients/export is answered 200 with Content-Type text/csv by
\* handle_export_csv, in every state of the store.
C2_ExportRouted ==
    (Done /\ req.method = "GET" /\ req.path = <<"clients", "export">>)
    => /\ resp.status = 200
       /\ resp.header = "Content-Type: text/csv"
       /\ resp.handler = "handle_export_csv"

\* The route table of the dispatcher: the verbs listed for a path, {} for a
\* path that matches no row
RouteVerbs(path) ==
    IF path \in {<<>>, <<"dashboard">>, <<"clients">>, <<"clients", "export">>} THEN {"GET"}
    ELSE IF path = <<"clients", "new">> \/ path = <<"api", "clients">> THEN {"GET", "POST"}
    ELSE IF Len(path) = 3 /\ path[1] = "clients" /\ IsInt(path[2]) /\ path[3] \in {"edit", "delete"}
        THEN {"GET", "POST"}
    ELSE IF Len(path) = 3 /\ path[1] = "api" /\ path[2] = "clients" /\ IsInt(path[3])
        THEN {"GET", "PUT", "PATCH", "DELETE"}
    ELSE {}

AllowHeader(verbs) ==
    IF verbs = {"GET"} THEN "Allow: GET"
    ELSE IF verbs = {"GET", "POST"} THEN "Allow: GET, POST"
    ELSE "Allow: GET, PUT, PATCH, DELETE"

\* C3: a request to a path of the route table with a verb the table does not
\* list for it is answered 405 with an Allow header listing the path's verbs.
C3_UnlistedVerbIs405 ==
    (Done /\ RouteVerbs(req.path) # {} /\ req.method \notin RouteVerbs(req.path))
    => /\ resp.status = 405
       /\ resp.header = AllowHeader(RouteVerbs(req.path))

\* C4: a GET, or a PUT or PATCH naming at least one updatable field, of
\* /api/clients/{id} for an id that is not in the store is answered 404 by the
\* handler itself (no unhandled exception), and the store is left unchanged.
C4_UnknownIdIs404 ==
    [][(/\ ~Done
        /\ Done'
        /\ IsApiDetail(req')
        /\ ApiId(req') \notin DOMAIN clients
        /\ \/ req'.method = "GET"
           \/ req'.method \in {"PUT", "PATCH"} /\ Named(req') # {})
       => /\ resp'.status = 404
          /\ resp'.handler = "handle_api_client_detail"
          /\ clients' = clients]_vars

\* C5: every stored record has a name and an email that are non-empty after
\* trimming surrounding whitespace.
C5_NameAndEmailNonEmpty ==
    \A i \in DOMAIN clients :
        NonEmptyTrimmed(clients[i]["name"]) /\ NonEmptyTrimmed(clients[i]["email"])

\* C6: a PUT or PATCH of /api/clients/{id} whose payload names none of the six
\* fields (an empty object, no body, a body that is not a JSON object) is
\* answered 400 "no fields to update", and the table is the same before and
\* after, whether or not the id exists.
C6_NoFieldsIs400 ==
    [][(~Done /\ Done' /\ IsPartialUpdate(req') /\ Named(req') = {})
       => /\ resp'.status = 400
          /\ resp'.body.error = "no fields to update"
          /\ clients' = clients]_vars

\* C7: a PUT or PATCH of /api/clients/{id} answered 200 changes exactly the
\* fields of that record that the payload names, to the payload's values; the
\* record's other fields, its id and every other record are unchanged, and
\* the response body is the record as stored after the update.
C7_PartialUpdateFrame ==
    [][(~Done /\ Done' /\ IsPartialUpdate(req') /\ resp'.status = 200)
       => LET id == ApiId(req')
              payload == req'.body.payload
          IN  /\ id \in DOMAIN clients
              /\ DOMAIN clients' = DOMAIN clients
              /\ \A i \in DOMAIN clients \ {id} : clients'[i] = clients[i]
              /\ \A f \in Fields :
                    clients'[id][f] = IF f \in Named(req') THEN payload[f] ELSE clients[id][f]
              /\ resp'.body.rows = (id :> clients'[id])]_vars

\* A partial update of one of two records succeeded, naming some fields and
\* leaving a field that holds a value no update writes by default
C7_Witness ==
    /\ Done
    /\ IsPartialUpdate(req)
    /\ resp.status = 200
    /\ Cardinality(DOMAIN clients) = 2
    /\ Cardinality(Named(req)) >= 1
    /\ "status" \notin Named(req)
    /\ clients[ApiId(req)]["status"] = Str(T_Active)

\* The id a delete request names
DeleteId(r) == IF IsFormDelete(r) THEN ParseInt(r.path[2]) ELSE ApiId(r)

IsDelete(r) == IsFormDelete(r) \/ (IsApiDetail(r) /\ r.method = "DELETE")

C9_IdsStableNeverReused ==
    [][/\ \A i \in DOMAIN clients : i <= seq
       /\ \A i \in DOMAIN clients' \ DOMAIN clients : i > seq /\ i = seq'
       /\ \A i \in DOMAIN clients \ DOMAIN clients' : IsDelete(req') /\ DeleteId(req') = i
       /\ DOMAIN clients' # DOMAIN clients
            => \A i \in DOMAIN clients \cap DOMAIN clients' : clients'[i] = clients[i]
       /\ seq' >= seq]_vars

\* A record was created after the record with the previous id had been deleted
C9_Witness ==
    /\ Done
    /\ IsApiCollection(req)
    /\ resp.status = 201
    /\ seq = 2
    /\ DOMAIN clients = {2}

\* C10: the dashboard's overdue count equals the number of records the
\* unfiltered client list flags overdue, and a record is flagged iff its
\* follow_up_date is set and lexicographically less than today's date.
C10_SameOverdueRule ==
    LET any == Request("GET", <<>>, <<>>, "", EmptyBody)
        dashboard == handle_dashboard(Db, any).resp.body
        list == handle_clients_list(Db, any).resp.body
    IN  /\ dashboard.n = Cardinality(list.flagged)
        /\ \A i \in DOMAIN clients :
            i \in list.flagged
                <=> /\ clients[i]["follow_up_date"] # Null
                    /\ TextLess(clients[i]["follow_up_date"].s, today_str)

-----------------------------------------------------------------------------
\* app under a threaded host: each thread runs a handler on a connection of its
\* own, and the handlers' statements interleave

\* Where a handler stands after a step
Outcome(pc, db, lastrowid, rowcount, response) ==
    [pc |-> pc, db |-> db, lastrowid |-> lastrowid, rowcount |-> rowcount, resp |-> response]

\* The handler returned, or an exception left it
Returned(res) == Outcome("done", res.db, 0, 0, res.resp)

\* cursor.rowcount of a statement WHERE id=?
RowCount(db, id) == IF id \in DOMAIN db.clients THEN 1 ELSE 0

\* handle_api_clients up to its conn.commit(): the request parsed and validated,
\* the INSERT executed inside the connection's implicit transaction
handle_api_clients_execute(db, request) ==
    LET pd == ParsePostData(request)
        row == SanitizedRow(pd.data)
        ins == SqlInsert(db, row)
    IN  IF request.method # "POST" THEN Returned(handle_api_clients(db, request))
        ELSE IF pd.exc # "" THEN Returned(Unhandled(db, pd.exc))
        ELSE IF ~pd.isdict \/ StripsNone(pd.data) THEN Returned(Unhandled(db, "AttributeError"))
        ELSE IF row["name"].s = <<>> \/ row["email"].s = <<>>
            THEN Returned(handle_api_clients(db, request))
        ELSE IF ins.exc # "" THEN Returned(Unhandled(ins.db, ins.exc))
        ELSE Outcome("commit", ins.db, ins.lastrowid, 1, NoResponse)

\* handle_api_clients after conn.commit(): the select-back of new_id, and
\* dict(cursor.fetchone())
handle_api_clients_select(db, new_id) ==
    LET new_client == SelectById(db, new_id)
    IN  IF DOMAIN new_client = {} THEN Unhandled(db, "TypeError")
        ELSE Result(db, Response(201, "handle_api_clients", "Content-Type: application/json",
                                 RowsBody(new_client)))

\* handle_api_client_detail up to conn.commit(): the UPDATE or the DELETE
\* executed inside the connection's implicit transaction
handle_api_client_detail_execute(db, request, client_id) ==
    LET pd == ParsePostData(request)
        fields == DOMAIN pd.data \cap Fields
        params == [f \in fields |-> pd.data[f]]
        upd == SqlUpdate(db, params, client_id)
        del == SqlDelete(db, client_id)
    IN  IF request.method \in {"PUT", "PATCH"}
            THEN IF pd.exc # "" THEN Returned(Unhandled(db, pd.exc))
                 ELSE IF ~pd.isdict THEN Returned(Unhandled(db, "TypeError"))
                 ELSE IF fields = {}
                    THEN Returned(handle_api_client_detail(db, request, client_id))
                 ELSE IF upd.exc # "" THEN Returned(Unhandled(upd.db, upd.exc))
                 ELSE Outcome("commit", upd.db, 0, RowCount(db, client_id), NoResponse)
        ELSE IF request.method = "DELETE"
            THEN IF del.exc # "" THEN Returned(Unhandled(del.db, del.exc))
                 ELSE Outcome("commit", del.db, 0, RowCount(db, client_id), NoResponse)
        ELSE Returned(handle_api_client_detail(db, request, client_id))

\* handle_api_client_detail after conn.commit(): the select-back of client_id
\* and dict(cursor.fetchone()) of an update, the 204 of a delete
handle_api_client_detail_select(db, request, client_id) ==
    LET updated == SelectById(db, client_id)
    IN  IF request.method = "DELETE"
            THEN Result(db, Response(204, "handle_api_client_detail", "", NoBody))
        ELSE IF DOMAIN updated = {} THEN Unhandled(db, "TypeError")
        ELSE Result(db, Response(200, "handle_api_client_detail",
                                 "Content-Type: application/json", RowsBody(updated)))

\* The requests of the JSON API the threads serve: those without a body, a
\* create naming name and email, a partial update naming status
ConcurrentRequests ==
    {r \in Requests :
        /\ IsApiCollection(r) \/ IsApiDetail(r)
        /\ \/ r.ctype = ""
           \/ r.method = "POST" /\ r.body.kind = "object" /\ DOMAIN r.body.payload = Required
           \/ r.method = "PATCH" /\ r.body.kind = "object" /\ DOMAIN r.body.payload = {"status"}}

\* A statement that writes waits for the write lock (sqlite3's busy handler)
\* while another connection's transaction is open
WriteLockFree(w) == \A v \in Workers \ {w} : workers[v].pc # "commit"

\* The statement failed, or was refused, inside the storage engine
RaisedBySqlite(response) ==
    response.status = 500 /\ response.body.error \in {"IntegrityError", "OperationalError"}

\* The host hands a request to a free thread
Accept ==
    /\ served < MaxRequests
    /\ \E w \in Workers, r \in ConcurrentRequests :
        /\ workers[w].pc = "idle"
        /\ workers' = [workers EXCEPT ![w] = Worker("execute", r, NoTxn, 0, 0, FALSE, NoResponse)]
    /\ served' = served + 1
    /\ UNCHANGED <<clients, seq, locked, req, resp>>

\* app routes the request and the handler runs to its return or, for a write,
\* to its conn.commit()
Execute ==
    \E w \in Workers :
        LET me == workers[w]
            out == IF IsApiCollection(me.request)
                       THEN handle_api_clients_execute(Db, me.request)
                   ELSE handle_api_client_detail_execute(Db, me.request, ApiId(me.request))
        IN  /\ me.pc = "execute"
            /\ (out.pc = "commit" \/ RaisedBySqlite(out.resp)) => WriteLockFree(w)
            /\ out.db.seq <= MaxSeq
            /\ locked' = out.db.locked
            /\ workers' = [workers EXCEPT ![w] =
                    Worker(out.pc, me.request, IF out.pc = "commit" THEN out.db ELSE NoTxn,
                           out.lastrowid, out.rowcount, FALSE, out.resp)]
            /\ UNCHANGED <<clients, seq, served, req, resp>>

\* conn.commit(): the transaction's write becomes the table the other
\* connections read; a delete then returns 204
Commit ==
    \E w \in Workers :
        LET me == workers[w]
            deleted == handle_api_client_detail_select(me.txn, me.request, 0)
        IN  /\ me.pc = "commit"
            /\ clients' = me.txn.clients
            /\ seq' = me.txn.seq
            /\ workers' = [workers EXCEPT ![w] =
                    IF me.request.method = "DELETE"
                        THEN Worker("done", me.request, NoTxn, 0, me.rowcount, TRUE, deleted.resp)
                    ELSE Worker("select", me.request, NoTxn, me.lastrowid, me.rowcount, TRUE,
                                NoResponse)]
            /\ UNCHANGED <<locked, served, req, resp>>

\* The select-back of a create or an update, on the table as it is committed now
SelectBack ==
    \E w \in Workers :
        LET me == workers[w]
            res == IF IsApiCollection(me.request)
                       THEN handle_api_clients_select(Db, me.lastrowid)
                   ELSE handle_api_client_detail_select(Db, me.request, ApiId(me.request))
        IN  /\ me.pc = "select"
            /\ workers' = [workers EXCEPT ![w] =
                    Worker("done", me.request, NoTxn, me.lastrowid, me.rowcount, TRUE, res.resp)]
            /\ UNCHANGED <<clients, seq, locked, served, req, resp>>

\* The response is sent and the thread is free again
Reply ==
    \E w \in Workers :
        /\ workers[w].pc = "done"
        /\ workers' = [workers EXCEPT ![w] = Idle]
        /\ UNCHANGED <<clients, seq, locked, served, req, resp>>

NextConcurrent ==
    \/ Accept
    \/ Execute
    \/ Commit
    \/ SelectBack
    \/ Reply
    \/ CollectGarbage

SpecConcurrent == Init /\ [][NextConcurrent]_vars

\* C11: under any interleaving of the statements of concurrent API requests, a
\* request whose write was committed completes: a POST /api/clients with
\* valid name and email is answered 201 with the created record, and a PUT or
\* PATCH naming a field, of an id that existed when its UPDATE ran, is
\* answered 200 with that record; no such request ends in an unhandled error.
C11_CommittedWriteCompletes ==
    \A w \in Workers :
        LET me == workers[w]
            r == me.request
        IN  (me.pc = "done" /\ me.committed /\ me.rowcount = 1)
            => /\ me.resp.status # 500
               /\ (IsApiCollection(r) /\ r.method = "POST")
                    => me.resp.status = 201 /\ DOMAIN me.resp.body.rows = {me.lastrowid}
               /\ (IsPartialUpdate(r) /\ Named(r) # {})
                    => me.resp.status = 200 /\ DOMAIN me.resp.body.rows = {ApiId(r)}

====
